---- MODULE Spec2Model ----
(***************************************************************************)
(* A model of p5.core.shape.PShape: the vertex store and its sanitizer,    *)
(* the lazily cached edge topology, the cached triangulation behind the    *)
(* draw accessors, and the edit() context manager.                         *)
(*                                                                         *)
(* A numpy array of points is a sequence of points, a point a sequence of  *)
(* integers.  The empty sequence is the array np.array([]) of shape (0,):  *)
(* the code never builds an empty array of shape (0, 2).  Coordinates are  *)
(* integers, so the dtype of an array is not modelled.  An optional value  *)
(* is None (<<>>) or Some(x) (<<x>>).  Edge indices are 0-based as in the  *)
(* source.  _outline_vertices, _tri, the colours and the matrices are never  *)
(* read by another operation than the one that writes them and are left    *)
(* out; the np.hstack call that builds _outline_vertices is modelled       *)
(* because it can raise.                                                   *)
(***************************************************************************)
EXTENDS Integers, Sequences, FiniteSets, TLC

\* ---------------------------------------------------------------- bounds
\* Longest vertex list assigned, and longest edit buffer.
MaxVerts == 2
\* Number of completed triangulations that are counted between mutations.
MaxCalls == 2
\* Longest vertex list a shape is constructed with where the edge topology
\* is examined.
MaxRing == 4

\* ------------------------------------------------------------- constants
\* Default target and source dimensions of _sanitize_vertex_list.
tdim == 2
sdim == 3

\* --------------------------------------------------------------- inputs
\* Points a caller may pass: two of 2 components, and one each of 1, 3 and 4.
ValidPoints == { <<0, 0>>, <<1, 1>> }
OddPoints == { <<1>>, <<0, 0, 1>>, <<0, 0, 0, 0>> }
InputPoints == ValidPoints \cup OddPoints

\* Points a caller may add in an edit session.
AddPoints == ValidPoints \cup { <<1>> }

\* Points a caller may pass to update_vertex.
UpdatePoints == ValidPoints \cup { <<0, 0, 1>> }

RECURSIVE SeqsUpTo(_, _)
SeqsUpTo(S, n) ==
    IF n = 0 THEN { <<>> }
    ELSE LET shorter == SeqsUpTo(S, n - 1)
         IN  shorter \cup { Append(s, x) : s \in { t \in shorter : Len(t) = n - 1 }, x \in S }

\* Vertex lists a caller may assign: every list of 2-component points, a
\* list of each other dimension, and a list that mixes 2 and 3 components.
InputLists ==
    SeqsUpTo(ValidPoints, MaxVerts)
    \cup { << p >> : p \in OddPoints }
    \cup { << <<1, 1>>, <<0, 0, 1>> >> }

\* Indices a caller may pass to update_vertex (numpy accepts -n .. n-1).
Indices == (-1) .. MaxVerts

\* Attribute sets a shape may be constructed with, one for each kind
\* ('closed' has no effect).
AttribSets == { {}, {"path"}, {"point"} }

None == <<>>
Some(x) == <<x>>
IsNone(o) == o = <<>>
Get(o) == o[1]

Min(a, b) == IF a < b THEN a ELSE b
Max(a, b) == IF a > b THEN a ELSE b

\* ----------------------------------------------------------------- state
VARIABLES
    _vertices,        \* self._vertices
    _edges,           \* self._edges: None or Some(edge list)
    _outline,         \* self._outline: None or Some(edge list)
    attribs,          \* self.attribs
    _in_edit_mode,    \* self._in_edit_mode
    _vertex_cache,    \* self._vertex_cache: None or Some(list of raw points)
    _tri_vertices,    \* self._tri_vertices
    _tri_edges,       \* self._tri_edges
    _tri_faces,       \* self._tri_faces
    scope,            \* position of the caller's with-block: "none" or "body"
    reset,            \* the reset argument of the running edit() generator
    watch,            \* the operations whose outcome the caller records in ret
    ret,              \* recorded outcome of the last call: operation, status, value
    added,            \* the points passed to add_vertex since edit() last began
    tri_calls,        \* triangulations completed since the last mutation
    tri_invoked       \* the triangulator was invoked since the last mutation

vars == << _vertices, _edges, _outline, attribs, _in_edit_mode, _vertex_cache,
           _tri_vertices, _tri_edges, _tri_faces, scope, reset, watch, ret,
           added, tri_calls, tri_invoked >>

shape == << _vertices, _edges, _outline, attribs, _in_edit_mode, _vertex_cache,
            _tri_vertices, _tri_edges, _tri_faces >>

caches == << _edges, _outline, _tri_vertices, _tri_edges, _tri_faces >>

\* Set once at construction.
fixed == << attribs, watch >>

\* The counters of the triangulator.
counters == << tri_calls, tri_invoked >>

\* Every operation of the shape a caller may watch.
AllOps == { "edit", "add_vertex", "exit", "vertices", "update_vertex", "edges",
            "_draw_vertices", "_draw_edges", "_draw_faces",
            "_draw_outline_edges" }

\* The outcome of a call as the caller records it: a call that is not
\* watched is made all the same and its outcome dropped.
Quiet == [op |-> "-", status |-> "-", val |-> None]
Ret(op, status, val) ==
    IF op \in watch THEN [op |-> op, status |-> status, val |-> val] ELSE Quiet

\* ------------------------------------------------------- pure functions
\* self._tri_required, set once in __init__.
_tri_required == ("point" \notin attribs) /\ ("path" \notin attribs)

\* PShape.kind
kind ==
    IF "point" \in attribs THEN "point"
    ELSE IF "path" \in attribs THEN "path"
    ELSE "poly"

\* list(v)[:t]
Truncate(v, t) == SubSeq(v, 1, Min(Len(v), t))

\* list(v) + [0] * k
PadZeros(v, k) == v \o [i \in 1 .. Max(k, 0) |-> 0]

\* Mutant of SanitizePoint: the truncation list(v)[:tdim] is missing.
SanitizePoint_NoTruncate(v, t, s) ==
    IF t > s THEN PadZeros(v, t - s)
    ELSE v

\* The body of the loop of _sanitize_vertex_list for one point.
SanitizePoint(v, t, s) ==
    IF t > s THEN PadZeros(v, t - s)
    ELSE IF t < s THEN Truncate(v, t)
    ELSE v

\* The test that raises ValueError("unexpected vertex dimension").
BadDimension(v, t, s) == (Len(v) > Max(t, s)) \/ (Len(v) < Min(t, s))

\* _sanitize_vertex_list: raises on the first bad point, else the array.
_sanitize_vertex_list(vertices, t, s) ==
    IF \E i \in 1 .. Len(vertices) : BadDimension(vertices[i], t, s)
    THEN [raised |-> TRUE, val |-> <<>>]
    ELSE [raised |-> FALSE,
          val |-> [i \in 1 .. Len(vertices) |-> SanitizePoint(vertices[i], t, s)]]

\* np.hstack([self._vertices, np.zeros((n, 1))]) raises when self._vertices
\* is the 1-dimensional empty array.
HstackRaises(verts) == Len(verts) = 0

\* Mutant of VerticesSetter: the three triangulation caches are not reset.
VerticesSetter_NoTriReset(new_vertices) ==
    LET san == _sanitize_vertex_list(new_vertices, tdim, sdim)
    IN  IF san.raised
        THEN [raised |-> TRUE, stored |-> FALSE, val |-> <<>>, tri_reset |-> FALSE]
        ELSE IF HstackRaises(san.val)
        THEN [raised |-> TRUE, stored |-> TRUE, val |-> san.val, tri_reset |-> FALSE]
        ELSE [raised |-> FALSE, stored |-> TRUE, val |-> san.val, tri_reset |-> FALSE]

\* The vertices setter as a function of its argument: whether it raises,
\* whether self._vertices was assigned before that, and whether the three
\* triangulation caches were reset.
VerticesSetter(new_vertices) ==
    LET san == _sanitize_vertex_list(new_vertices, tdim, sdim)
    IN  IF san.raised
        THEN [raised |-> TRUE, stored |-> FALSE, val |-> <<>>, tri_reset |-> FALSE]
        ELSE IF HstackRaises(san.val)
        THEN [raised |-> TRUE, stored |-> TRUE, val |-> san.val, tri_reset |-> FALSE]
        ELSE [raised |-> FALSE, stored |-> TRUE, val |-> san.val, tri_reset |-> TRUE]

\* _compute_poly_edges for n vertices.
_compute_poly_edges(n) == [k \in 1 .. n |-> << k - 1, k % n >>]

\* _compute_outline_edges for n vertices.
_compute_outline_edges(n) == [k \in 1 .. (n - 1) |-> << k - 1, k % n >>]

\* The branch of the edges property that computes self._edges for a shape
\* that is no point shape.
ComputeEdges(atts, n) ==
    IF "path" \in atts THEN _compute_outline_edges(n) ELSE _compute_poly_edges(n)

\* The branch of the edges property that computes self._outline from the
\* edges e just computed.
ComputeOutline(atts, n, e) ==
    IF "open" \in atts THEN _compute_outline_edges(n) ELSE e

\* n, _ = self._vertices.shape raises for the array of shape (0,).
ShapeUnpackRaises(verts) == Len(verts) = 0

\* The edges property: the value returned (or the error raised) and the
\* values of self._edges and self._outline after the read.
EdgesGetter(atts, verts, edges, outline) ==
    IF "point" \in atts
    THEN [raised |-> FALSE, val |-> <<>>, edges |-> edges, outline |-> outline]
    ELSE IF ~IsNone(edges)
    THEN [raised |-> FALSE, val |-> Get(edges), edges |-> edges, outline |-> outline]
    ELSE IF ShapeUnpackRaises(verts)
    THEN [raised |-> TRUE, val |-> <<>>, edges |-> edges, outline |-> outline]
    ELSE LET n == Len(verts)
             e == ComputeEdges(atts, n)
             o == ComputeOutline(atts, n, e)
         IN  [raised |-> FALSE, val |-> e, edges |-> Some(e), outline |-> Some(o)]

\* ------------------------------------------------- triangulator (vispy)
\* geometry.Triangulation is an external service.  What one invocation does
\* is a choice: it raises (in the constructor or in triangulate()), it
\* returns with .edges and .tris both ndarrays, or it returns with neither
\* an ndarray (a degenerate result).
TriOutcomes ==
    { [status |-> "raise", edges |-> FALSE, tris |-> FALSE],
      [status |-> "ok", edges |-> TRUE, tris |-> TRUE],
      [status |-> "ok", edges |-> FALSE, tris |-> FALSE] }

\* The outcome of an accessor call that does not invoke the triangulator.
NotInvoked == [status |-> "none", edges |-> FALSE, tris |-> FALSE]

\* np.array([])
EmptyArray == [kind |-> "empty", pts |-> <<>>, cedges |-> <<>>]

\* self._tri.pts, self._tri.edges and self._tri.tris when they are arrays:
\* the point, edge and face sets computed for the vertices and the
\* constraint edges the triangulator was given.
TriPts(verts, cedges) == [kind |-> "pts", pts |-> verts, cedges |-> cedges]
TriEdges(verts, cedges) == [kind |-> "edges", pts |-> verts, cedges |-> cedges]
TriTris(verts, cedges) == [kind |-> "tris", pts |-> verts, cedges |-> cedges]

\* What _retriangulate stores in self._tri_edges.
StoredTriEdges(verts, cedges, o) ==
    IF o.edges THEN Some(TriEdges(verts, cedges)) ELSE Some(EmptyArray)

\* Mutant of StoredTriFaces: self._tri.tris is stored as it is, None when
\* the triangulator found no face.
StoredTriFaces_KeepsNone(verts, cedges, o) ==
    IF o.tris THEN Some(TriTris(verts, cedges)) ELSE None

\* What _retriangulate stores in self._tri_faces.
StoredTriFaces(verts, cedges, o) ==
    IF o.tris THEN Some(TriTris(verts, cedges)) ELSE Some(EmptyArray)

\* What _retriangulate stores in self._tri_vertices.
StoredTriVertices(verts, cedges, o) == Some(TriPts(verts, cedges))

\* _retriangulate under outcome o of the triangulator: the error raised if
\* any, whether the triangulator was invoked, and the fields afterwards.
\* Reading self.edges comes first and may itself raise or fill the cache.
_retriangulate(o) ==
    LET eg  == EdgesGetter(attribs, _vertices, _edges, _outline)
        old == [edges |-> eg.edges, outline |-> eg.outline,
                tv |-> _tri_vertices, te |-> _tri_edges, tf |-> _tri_faces]
    IN  IF eg.raised
        THEN [status |-> "ValueError", called |-> FALSE] @@ old
        ELSE IF o.status = "raise"
        THEN [status |-> "TriangulationError", called |-> TRUE] @@ old
        ELSE [status |-> "ok", called |-> TRUE, edges |-> eg.edges,
              outline |-> eg.outline,
              tv |-> StoredTriVertices(_vertices, eg.val, o),
              te |-> StoredTriEdges(_vertices, eg.val, o),
              tf |-> StoredTriFaces(_vertices, eg.val, o)]

\* An accessor that does not run _retriangulate: nothing raised or changed.
NoRetriangulate ==
    [status |-> "ok", called |-> FALSE, edges |-> _edges, outline |-> _outline,
     tv |-> _tri_vertices, te |-> _tri_edges, tf |-> _tri_faces]

\* ------------------------------------------------------------------ Init
\* The fields __init__ sets to a fixed value, and the caller's position.
InitFields ==
    /\ _edges = None
    /\ _outline = None
    /\ _in_edit_mode = FALSE
    /\ _vertex_cache = None
    /\ _tri_vertices = None
    /\ _tri_edges = None
    /\ _tri_faces = None
    /\ scope = "none"
    /\ reset = FALSE
    /\ ret = Quiet
    /\ added = <<>>
    /\ tri_calls = 0
    /\ tri_invoked = FALSE

\* The state after __init__: the attributes are fixed, the vertices argument
\* went through the setter when it is not empty (a constructor that raised
\* built no shape).
InitShape ==
    /\ attribs \in AttribSets
    /\ \E vs \in InputLists :
          /\ (Len(vs) > 0) => ~VerticesSetter(vs).raised
          /\ _vertices = (IF Len(vs) > 0 THEN VerticesSetter(vs).val ELSE <<>>)
    /\ InitFields

\* --------------------------------------------------------------- actions
\* Mutant of Edit: the test of _in_edit_mode is missing.
Edit_NoGuard(r) ==
    /\ _in_edit_mode' = TRUE
    /\ _vertices' = (IF r THEN <<>> ELSE _vertices)
    /\ _vertex_cache' = Some(<<>>)
    /\ scope' = "body"
    /\ reset' = r
    /\ ret' = Ret("edit", "ok", None)
    /\ added' = <<>>
    /\ UNCHANGED << caches, fixed, counters >>

\* with shape.edit(reset=r): everything up to the yield.
Edit(r) ==
    IF _in_edit_mode
    THEN /\ ret' = Ret("edit", "ValueError", None)
         /\ UNCHANGED << shape, watch, scope, reset, added, counters >>
    ELSE /\ _in_edit_mode' = TRUE
         /\ _vertices' = (IF r THEN <<>> ELSE _vertices)
         /\ _vertex_cache' = Some(<<>>)
         /\ scope' = "body"
         /\ reset' = r
         /\ ret' = Ret("edit", "ok", None)
         /\ added' = <<>>
         /\ UNCHANGED << caches, fixed, counters >>

\* Mutant of AddVertex: the _ensure_editable decorator is missing, so that
\* outside a session the call appends to the buffer of the last session
\* (and raises AttributeError when there was none).
AddVertex_NoDecorator(vertex) ==
    IF IsNone(_vertex_cache)
    THEN /\ ret' = Ret("add_vertex", "AttributeError", None)
         /\ UNCHANGED << shape, watch, scope, reset, added, counters >>
    ELSE /\ Len(Get(_vertex_cache)) < MaxVerts
         /\ _vertex_cache' = Some(Append(Get(_vertex_cache), vertex))
         /\ added' = Append(added, vertex)
         /\ ret' = Ret("add_vertex", "ok", None)
         /\ UNCHANGED << _vertices, caches, fixed, _in_edit_mode, scope, reset,
                         counters >>

\* add_vertex(vertex), behind the _ensure_editable decorator.
AddVertex(vertex) ==
    IF ~_in_edit_mode
    THEN /\ ret' = Ret("add_vertex", "ValueError", None)
         /\ UNCHANGED << shape, watch, scope, reset, added, counters >>
    ELSE /\ Len(Get(_vertex_cache)) < MaxVerts
         /\ _vertex_cache' = Some(Append(Get(_vertex_cache), vertex))
         /\ added' = Append(added, vertex)
         /\ ret' = Ret("add_vertex", "ok", None)
         /\ UNCHANGED << _vertices, caches, fixed, _in_edit_mode, scope, reset,
                         counters >>

\* Mutant of ExitScope: the assignment self._in_edit_mode = False is missing.
ExitScope_KeepsEditMode ==
    /\ scope = "body"
    /\ LET r == VerticesSetter(Get(_vertex_cache))
       IN  /\ _vertices' = (IF r.stored THEN r.val ELSE _vertices)
           /\ _tri_vertices' = (IF r.tri_reset THEN None ELSE _tri_vertices)
           /\ _tri_edges' = (IF r.tri_reset THEN None ELSE _tri_edges)
           /\ _tri_faces' = (IF r.tri_reset THEN None ELSE _tri_faces)
           /\ _edges' = (IF r.raised THEN _edges ELSE None)
           /\ ret' = Ret("exit", IF r.raised THEN "ValueError" ELSE "ok", Some(reset))
           /\ tri_calls' = (IF r.raised THEN tri_calls ELSE 0)
           /\ tri_invoked' = (IF r.raised THEN tri_invoked ELSE FALSE)
    /\ scope' = "none"
    /\ reset' = FALSE
    /\ UNCHANGED << _outline, fixed, _in_edit_mode, _vertex_cache, added >>

\* The with-block ends normally: edit() resumes after the yield and commits
\* the buffer through the vertices setter.  When the setter raises, the two
\* assignments after it are not reached.
ExitScope ==
    /\ scope = "body"
    /\ LET r == VerticesSetter(Get(_vertex_cache))
       IN  /\ _vertices' = (IF r.stored THEN r.val ELSE _vertices)
           /\ _tri_vertices' = (IF r.tri_reset THEN None ELSE _tri_vertices)
           /\ _tri_edges' = (IF r.tri_reset THEN None ELSE _tri_edges)
           /\ _tri_faces' = (IF r.tri_reset THEN None ELSE _tri_faces)
           /\ _in_edit_mode' = (IF r.raised THEN _in_edit_mode ELSE FALSE)
           /\ _edges' = (IF r.raised THEN _edges ELSE None)
           /\ ret' = Ret("exit", IF r.raised THEN "ValueError" ELSE "ok", Some(reset))
           /\ tri_calls' = (IF r.raised THEN tri_calls ELSE 0)
           /\ tri_invoked' = (IF r.raised THEN tri_invoked ELSE FALSE)
    /\ scope' = "none"
    /\ reset' = FALSE
    /\ UNCHANGED << _outline, fixed, _vertex_cache, added >>

\* The with-block raises: contextlib throws the exception into the
\* generator at the yield, edit() does not catch it, and nothing after the
\* yield runs.
BodyRaises ==
    /\ scope = "body"
    /\ scope' = "none"
    /\ reset' = FALSE
    /\ ret' = Ret("exit", "BodyError", Some(reset))
    /\ UNCHANGED << shape, watch, added, counters >>

\* shape.vertices = new_vertices.  A caller that watches "argument" records
\* the list it assigned next to the outcome.
SetVertices(new_vertices) ==
    LET r == VerticesSetter(new_vertices)
    IN  /\ _vertices' = (IF r.stored THEN r.val ELSE _vertices)
        /\ _tri_vertices' = (IF r.tri_reset THEN None ELSE _tri_vertices)
        /\ _tri_edges' = (IF r.tri_reset THEN None ELSE _tri_edges)
        /\ _tri_faces' = (IF r.tri_reset THEN None ELSE _tri_faces)
        /\ ret' = Ret("vertices", IF r.raised THEN "ValueError" ELSE "ok",
                      IF "argument" \in watch THEN Some(new_vertices) ELSE None)
        /\ tri_calls' = (IF r.raised THEN tri_calls ELSE 0)
        /\ tri_invoked' = (IF r.raised THEN tri_invoked ELSE FALSE)
        /\ UNCHANGED << _edges, _outline, fixed, _in_edit_mode, _vertex_cache,
                        scope, reset, added >>

\* numpy's index check for self._vertices[idx].
IndexInRange(idx, n) == (idx >= 0 - n) /\ (idx < n)

\* The position (from 1) that numpy index idx denotes in an array of n rows.
Position(idx, n) == IF idx < 0 THEN idx + n + 1 ELSE idx + 1

\* Mutant of UpdateVertex: the point is assigned to every row,
\* self._vertices[:] = np.array(vertex).
UpdateVertex_AllRows(idx, vertex) ==
    IF Len(vertex) # 2
    THEN /\ ret' = Ret("update_vertex", "ValueError", None)
         /\ UNCHANGED << shape, watch, scope, reset, added, counters >>
    ELSE IF ~IndexInRange(idx, Len(_vertices))
    THEN /\ ret' = Ret("update_vertex", "IndexError", None)
         /\ UNCHANGED << shape, watch, scope, reset, added, counters >>
    ELSE /\ _vertices' = [j \in 1 .. Len(_vertices) |-> vertex]
         /\ _tri_vertices' = None
         /\ _tri_edges' = None
         /\ _tri_faces' = None
         /\ _edges' = None
         /\ ret' = Ret("update_vertex", "ok", None)
         /\ tri_calls' = 0
         /\ tri_invoked' = FALSE
         /\ UNCHANGED << _outline, fixed, _in_edit_mode, _vertex_cache,
                         scope, reset, added >>

\* update_vertex(idx, vertex)
UpdateVertex(idx, vertex) ==
    IF Len(vertex) # 2
    THEN /\ ret' = Ret("update_vertex", "ValueError", None)
         /\ UNCHANGED << shape, watch, scope, reset, added, counters >>
    ELSE IF ~IndexInRange(idx, Len(_vertices))
    THEN /\ ret' = Ret("update_vertex", "IndexError", None)
         /\ UNCHANGED << shape, watch, scope, reset, added, counters >>
    ELSE /\ _vertices' = [_vertices EXCEPT ![Position(idx, Len(_vertices))] = vertex]
         /\ _tri_vertices' = None
         /\ _tri_edges' = None
         /\ _tri_faces' = None
         /\ _edges' = None
         /\ ret' = Ret("update_vertex", "ok", None)
         /\ tri_calls' = 0
         /\ tri_invoked' = FALSE
         /\ UNCHANGED << _outline, fixed, _in_edit_mode, _vertex_cache,
                         scope, reset, added >>

\* The edges property read by the caller.
ReadEdges ==
    LET eg == EdgesGetter(attribs, _vertices, _edges, _outline)
    IN  /\ _edges' = eg.edges
        /\ _outline' = eg.outline
        /\ ret' = Ret("edges", IF eg.raised THEN "ValueError" ELSE "ok",
                      IF eg.raised THEN None ELSE Some(eg.val))
        /\ UNCHANGED << _vertices, fixed, _in_edit_mode, _vertex_cache,
                        _tri_vertices, _tri_edges, _tri_faces, scope, reset,
                        added, counters >>

\* What a draw accessor leaves behind: o is what the triangulator does in
\* this call, r the outcome of the accessor's call of _retriangulate
\* (NoRetriangulate when it made none), val what the accessor returns.
DrawAccess(op, o, r, val) ==
    /\ r.called = (o # NotInvoked)
    /\ (r.called /\ r.status = "ok") => tri_calls < MaxCalls
    /\ _edges' = r.edges
    /\ _outline' = r.outline
    /\ _tri_vertices' = r.tv
    /\ _tri_edges' = r.te
    /\ _tri_faces' = r.tf
    /\ tri_calls' = (IF r.called /\ r.status = "ok" THEN tri_calls + 1 ELSE tri_calls)
    /\ tri_invoked' = (tri_invoked \/ r.called)
    /\ ret' = Ret(op, r.status, IF r.status = "ok" THEN val ELSE None)
    /\ UNCHANGED << _vertices, fixed, _in_edit_mode, _vertex_cache, scope,
                    reset, added >>

\* The _draw_vertices property.
DrawVertices(o) ==
    LET r == IF _tri_required /\ IsNone(_tri_vertices)
             THEN _retriangulate(o) ELSE NoRetriangulate
    IN  DrawAccess("_draw_vertices", o, r,
                   IF _tri_required THEN r.tv ELSE Some(_vertices))

\* The _draw_edges property; without triangulation it reads self.edges.
DrawEdges(o) ==
    IF _tri_required
    THEN LET r == IF IsNone(_tri_edges) THEN _retriangulate(o) ELSE NoRetriangulate
         IN  DrawAccess("_draw_edges", o, r, r.te)
    ELSE LET eg == EdgesGetter(attribs, _vertices, _edges, _outline)
             r  == [NoRetriangulate EXCEPT
                       !.status = IF eg.raised THEN "ValueError" ELSE "ok",
                       !.edges = eg.edges, !.outline = eg.outline]
         IN  DrawAccess("_draw_edges", o, r, Some(eg.val))

\* The _draw_faces property.
DrawFaces(o) ==
    IF _tri_required
    THEN LET r == IF IsNone(_tri_faces) THEN _retriangulate(o) ELSE NoRetriangulate
         IN  DrawAccess("_draw_faces", o, r, r.tf)
    ELSE DrawAccess("_draw_faces", o, NoRetriangulate, Some(EmptyArray))

\* The _draw_outline_edges property: the cached field as it is.
DrawOutlineEdges ==
    /\ ret' = Ret("_draw_outline_edges", "ok",
                  IF "open" \in attribs THEN _outline ELSE _edges)
    /\ UNCHANGED << shape, watch, scope, reset, added, counters >>

Next ==
    \/ \E r \in BOOLEAN : Edit(r)
    \/ \E p \in AddPoints : AddVertex(p)
    \/ ExitScope
    \/ BodyRaises
    \/ \E vs \in InputLists : SetVertices(vs)
    \/ \E i \in Indices, p \in UpdatePoints : UpdateVertex(i, p)
    \/ ReadEdges
    \/ \E o \in TriOutcomes \cup { NotInvoked } : DrawVertices(o)
    \/ \E o \in TriOutcomes \cup { NotInvoked } : DrawEdges(o)
    \/ \E o \in TriOutcomes \cup { NotInvoked } : DrawFaces(o)
    \/ DrawOutlineEdges

\* The caller records the outcome of every call.
Init == InitShape /\ watch = AllOps

Spec == Init /\ [][Next]_vars

\* The same shape and the same calls; the caller records the outcome of the
\* calls of one group only.
InitEdit == InitShape /\ watch = {"edit"}

SpecEdit == InitEdit /\ [][Next]_vars

InitAdd == InitShape /\ watch = {"add_vertex"}

SpecAdd == InitAdd /\ [][Next]_vars

InitExit == InitShape /\ watch = {"exit"}

SpecExit == InitExit /\ [][Next]_vars

InitUpdate == InitShape /\ watch = {"update_vertex"}

SpecUpdate == InitUpdate /\ [][Next]_vars

InitMutate == InitShape /\ watch = {"vertices", "update_vertex", "exit"}

SpecMutate == InitMutate /\ [][Next]_vars

InitDraw == InitShape /\ watch = {"_draw_vertices", "_draw_edges", "_draw_faces"}

SpecDraw == InitDraw /\ [][Next]_vars

\* The caller records assignments to vertices together with their argument.
InitAssign == InitShape /\ watch = {"vertices", "argument"}

SpecAssign == InitAssign /\ [][Next]_vars

\* Shapes constructed with up to MaxRing vertices, with and without 'open';
\* the caller records the reads of edges and of _draw_outline_edges.
InitTopology ==
    /\ attribs \in AttribSets \cup { {"open"} }
    /\ \E vs \in SeqsUpTo({ <<0, 0>> }, MaxRing) :
          _vertices = (IF Len(vs) > 0 THEN VerticesSetter(vs).val ELSE <<>>)
    /\ InitFields
    /\ watch = {"edges", "_draw_outline_edges"}

SpecTopology == InitTopology /\ [][Next]_vars


\* ---------------------------------------------------------------- claims
Mutators == { "vertices", "update_vertex", "exit" }
DrawOps == { "_draw_vertices", "_draw_edges", "_draw_faces" }

\* The edges the topology deriver computes for the current vertex store.
CurrentTopology ==
    IF "point" \in attribs THEN <<>> ELSE ComputeEdges(attribs, Len(_vertices))

\* What a read of edges returns in the current state.
NextEdgesRead == EdgesGetter(attribs, _vertices, _edges, _outline)

\* Every point of the list has exactly two components.
AllTwoD(points) == \A i \in 1 .. Len(points) : Len(points[i]) = 2

\* C1: when the with-block of an edit session has ended, whether it ended
\* normally or because its body raised, the shape is Closed again.
C1_ScopeExitCloses ==
    (ret.op = "exit" /\ ret.status \in {"ok", "BodyError"}) => ~_in_edit_mode

\* C2: right after a successful mutation of the vertex store (assignment,
\* update_vertex, commit of an edit session) a read of edges raises nothing
\* and returns the topology derived from the current vertices.
C2_EdgesFollowVertices ==
    (ret.op \in Mutators /\ ret.status = "ok")
        => (~NextEdgesRead.raised /\ NextEdgesRead.val = CurrentTopology)

\* C3: on a shape that requires triangulation at most one triangulation is
\* completed between two mutations: a draw accessor that returns has one
\* triangulation behind it and returns a cached value that is not None, also
\* when the triangulator returned no edges or faces, and once a
\* triangulation is completed every draw accessor returns.
C3_TriangulatedOnce ==
    /\ tri_calls <= 1
    /\ (_tri_required /\ ret.op \in DrawOps) =>
          /\ (ret.status = "ok") = (tri_calls = 1)
          /\ (ret.status = "ok") => ~IsNone(ret.val)

\* C3 witness: _draw_edges returned the empty edge set of a degenerate
\* triangulation from the cache.
C3_Witness ==
    /\ _tri_required
    /\ ret = [op |-> "_draw_edges", status |-> "ok", val |-> Some(EmptyArray)]
    /\ _tri_faces = Some(EmptyArray)
    /\ tri_calls = 1

C5_SingleSession ==
    [][(ret'.op = "edit" /\ _in_edit_mode)
          => (ret'.status = "ValueError"
              /\ UNCHANGED << _vertex_cache, added, _vertices, _in_edit_mode, scope >>)]_vars

\* C5 witness: edit() was refused inside a session that has added a vertex.
C5_Witness ==
    /\ ret.op = "edit"
    /\ ret.status = "ValueError"
    /\ scope = "body"
    /\ _in_edit_mode
    /\ Len(added) > 0

\* C6: add_vertex called while the shape is not in edit mode raises and
\* leaves the vertex store, the buffer and every cache unchanged.
C6_AddOutsideSession ==
    [][(ret'.op = "add_vertex" /\ ~_in_edit_mode)
          => (ret'.status = "ValueError" /\ UNCHANGED << shape, added >>)]_vars

\* C6 witness: add_vertex was refused on a closed shape whose buffer and
\* caches are filled.
C6_Witness ==
    /\ ret.op = "add_vertex"
    /\ ret.status = "ValueError"
    /\ ~_in_edit_mode
    /\ ~IsNone(_vertex_cache)
    /\ ~IsNone(_edges)
    /\ ~IsNone(_tri_faces)

\* C7: when the with-block of a session opened with reset=True ends normally
\* after a non-empty sequence of 2-component points was added, the commit
\* succeeds, vertices is exactly that sequence and the shape is Closed.
C7_RoundTrip ==
    (/\ ret.op = "exit"
     /\ ret.status # "BodyError"
     /\ ret.val = Some(TRUE)
     /\ added # <<>>
     /\ AllTwoD(added))
        => (ret.status = "ok" /\ _vertices = added /\ ~_in_edit_mode /\ scope = "none")

\* C7 witness: a reset session that added two different points has ended.
C7_Witness ==
    /\ ret = [op |-> "exit", status |-> "ok", val |-> Some(TRUE)]
    /\ Len(added) = 2
    /\ added[1] # added[2]
    /\ _vertices = added

\* C8: when the with-block of a session opened with reset=False ends and the
\* commit succeeds, vertices is the vertex list from before the commit
\* followed by the added vertices.
C8_AppendsToExisting ==
    [][(scope = "body" /\ ~reset /\ ret'.op = "exit" /\ ret'.status = "ok")
          => _vertices' = _vertices \o _sanitize_vertex_list(added, tdim, sdim).val]_vars

\* C9: update_vertex(idx, p) with a 2-component p and an index numpy accepts
\* replaces the vertex at idx by p and leaves the other vertices and their
\* number unchanged; with a p of another length it raises ValueError and
\* leaves the vertex store, the buffer and every cache unchanged.
C9_UpdateVertex ==
    [][\A idx \in Indices, p \in UpdatePoints :
          UpdateVertex(idx, p) =>
             /\ (Len(p) = 2 /\ IndexInRange(idx, Len(_vertices))) =>
                   /\ Len(_vertices') = Len(_vertices)
                   /\ \A j \in 1 .. Len(_vertices) :
                         _vertices'[j] = (IF j = Position(idx, Len(_vertices))
                                          THEN p ELSE _vertices[j])
             /\ (Len(p) # 2) =>
                   /\ ret'.status = "ValueError"
                   /\ UNCHANGED << shape, added >>]_vars

\* C9 witness: update_vertex has replaced one of two vertices by a
\* different point.
C9_Witness ==
    /\ ret.op = "update_vertex"
    /\ ret.status = "ok"
    /\ Len(_vertices) = 2
    /\ _vertices[1] # _vertices[2]

\* C10: update_vertex called while the shape is in edit mode is rejected
\* and leaves the vertex store unchanged.
C10_NoUpdateInSession ==
    [][(ret'.op = "update_vertex" /\ _in_edit_mode)
          => (ret'.status # "ok" /\ _vertices' = _vertices)]_vars

\* Some point of the list has a length the sanitizer rejects.
HasBadPoint(points) ==
    \E i \in 1 .. Len(points) : BadDimension(points[i], tdim, sdim)

\* C11: when the commit at the end of an edit session fails sanitization
\* (some added point has a length the sanitizer rejects), the error is
\* raised to the caller and the shape is Closed afterwards.
C11_FailedCommitCloses ==
    (ret.op = "exit" /\ ret.status # "BodyError" /\ HasBadPoint(added))
        => (ret.status = "ValueError" /\ ~_in_edit_mode)

\* e is the single closed ring over the indices 0 .. n-1.
IsRing(e, n) ==
    /\ Len(e) = n
    /\ \A i \in 0 .. (n - 1) : e[i + 1] = << i, (i + 1) % n >>

\* e is the chain 0-1, 1-2, ... over n vertices, without the closing edge.
IsChain(e, n) ==
    /\ Len(e) = (IF n <= 1 THEN 0 ELSE n - 1)
    /\ \A i \in 0 .. (n - 2) : e[i + 1] = << i, i + 1 >>

\* C12: a read of edges that finds the cache empty computes, over the n
\* current vertices, the closed ring of n edges when the shape is a polygon
\* and n >= 3, and the non-wrapping chain of n-1 edges (none if n <= 1) when
\* the shape is a path.
C12_EdgeTopology ==
    [][(ret'.op = "edges" /\ IsNone(_edges))
          => /\ (kind = "poly" /\ Len(_vertices) >= 3)
                   => (ret'.status = "ok" /\ ~IsNone(ret'.val)
                       /\ IsRing(Get(ret'.val), Len(_vertices)))
             /\ (kind = "path")
                   => (ret'.status = "ok" /\ ~IsNone(ret'.val)
                       /\ IsChain(Get(ret'.val), Len(_vertices)))]_vars

\* C13: for every kind, a read of edges on a shape that holds no vertex or
\* one vertex raises nothing and returns an empty edge set.
C13_DegenerateEdges ==
    (ret.op = "edges" /\ Len(_vertices) <= 1)
        => (ret.status = "ok" /\ ret.val = Some(<<>>))

\* C14: in every reachable state every vertex held in the vertex store has
\* exactly 2 components.
C14_StoreIsTwoD == AllTwoD(_vertices)

\* C14 witness: a list holding a 2-component and a 3-component point was
\* assigned and is stored as two 2-component vertices.
C14_Witness ==
    /\ ret = [op |-> "vertices", status |-> "ok",
              val |-> Some(<< <<1, 1>>, <<0, 0, 1>> >>)]
    /\ _vertices = << <<1, 1>>, <<0, 0>> >>

\* The argument of the assignment to vertices the caller recorded last.
Assigned == IF ret.op = "vertices" /\ ~IsNone(ret.val) THEN Get(ret.val) ELSE <<>>

\* A point right-padded with zeros, or cut, to the target dimension.
PadOrCut(p) ==
    IF Len(p) < tdim THEN PadZeros(p, tdim - Len(p)) ELSE Truncate(p, tdim)

\* C15: an assignment to vertices of points that all have fewer components
\* than the target dimension 2 succeeds and stores each point right-padded
\* with zeros; an assignment of points that all have more than 2 components
\* succeeds and stores the first 2 components of each.
C15_PadOrTruncate ==
    (/\ Assigned # <<>>
     /\ \/ \A i \in 1 .. Len(Assigned) : Len(Assigned[i]) < tdim
        \/ \A i \in 1 .. Len(Assigned) : Len(Assigned[i]) > tdim)
        => /\ ret.status = "ok"
           /\ _vertices = [i \in 1 .. Len(Assigned) |-> PadOrCut(Assigned[i])]

\* The points of the list do not all have the same length.
MixedLengths(points) ==
    \E i, j \in 1 .. Len(points) : Len(points[i]) # Len(points[j])

\* C16: an assignment to vertices of points that do not all have the same
\* length raises a dimension error and does not replace the vertex store.
C16_MixedRejected ==
    [][(ret'.op = "vertices" /\ ~IsNone(ret'.val) /\ MixedLengths(Get(ret'.val)))
          => (ret'.status = "ValueError" /\ _vertices' = _vertices)]_vars

\* Every index of every edge of e denotes one of n vertices.
EdgesWithin(e, n) ==
    \A k \in 1 .. Len(e) : e[k][1] < n /\ e[k][2] < n

\* C17: whenever a draw accessor invokes the triangulator, the constraint
\* edges it passes (what self.edges returns) are the edges derived from the
\* vertices it passes (self.vertices): every edge index is smaller than the
\* number of these vertices.
C17_ConstraintEdgesFit ==
    [][(\E o \in TriOutcomes : DrawVertices(o) \/ DrawEdges(o) \/ DrawFaces(o))
          => /\ NextEdgesRead.val = CurrentTopology
             /\ EdgesWithin(NextEdgesRead.val, Len(_vertices))]_vars

\* C18: a read of _draw_outline_edges never returns None nor an outline of a
\* previous vertex store: it returns the edges of the current vertices when
\* 'open' is not set, and the non-wrapping chain of consecutive pairs over
\* the current vertices when 'open' is set.
C18_OutlineCurrent ==
    (ret.op = "_draw_outline_edges")
        => /\ ~IsNone(ret.val)
           /\ Get(ret.val) = (IF "open" \in attribs
                              THEN _compute_outline_edges(Len(_vertices))
                              ELSE CurrentTopology)

\* C19: in every reachable state, an edit session opened with reset=True
\* included, a triangulation held in the cache was computed from the
\* current contents of the vertex store, and so was the triangulation a
\* draw accessor has just returned.
C19_TriangulationCurrent ==
    /\ ~IsNone(_tri_vertices) => Get(_tri_vertices).pts = _vertices
    /\ (_tri_required /\ ret.op = "_draw_vertices" /\ ret.status = "ok")
          => Get(ret.val).pts = _vertices

\* C20: when the with-block of a session opened with reset=True ends normally
\* and no vertex was added, the exit raises nothing, the vertex store is
\* empty and the shape is Closed.
C20_EmptySessionCloses ==
    (/\ ret.op = "exit"
     /\ ret.status # "BodyError"
     /\ ret.val = Some(TRUE)
     /\ added = <<>>)
        => (ret.status = "ok" /\ _vertices = <<>> /\ ~_in_edit_mode)

====
